---- MODULE Spec2Model ----
(***************************************************************************)
(* Model of backend/google_image_scraper.py: the in-memory job table, the  *)
(* three request handlers (start_scrape, get_job_status, cancel_job) and   *)
(* the background pipeline scrape_images_task with save_image's retry      *)
(* loop.  Browser, network and filesystem calls are the environment: each  *)
(* one either returns or raises, chosen nondeterministically.              *)
(*                                                                         *)
(* Handlers are atomic (they contain no await that suspends).  A pipeline  *)
(* is split at its blocking calls, and other handlers and pipelines may    *)
(* run between two of its steps; the run-to-completion schedule of a       *)
(* single event loop is one of the behaviours.                             *)
(***************************************************************************)
EXTENDS Integers, Sequences, FiniteSets, TLC

\* ---- bounds of the model ----
MaxJobs == 2
MaxCand == 2
MaxNum == 2
MaxNeg == 1
MaxElems == 2
MaxDelta == 1

\* ---- program constants ----
retry_count == 3
scroll_limit == 5

JobIds == 1 .. MaxJobs
NumImages == (0 - MaxNeg) .. MaxNum
SearchTerms == {"cats"}
FolderPaths == {"GoogleSearchImages/a"}

\* An extracted URL is a data:image/ URL with a decodable payload, a
\* data:image/ URL whose payload does not decode, or anything else
\* (fetched with requests.get).
UrlKinds == {"data_ok", "data_bad", "remote"}

RECURSIVE SeqsUpTo(_, _)
SeqsUpTo(S, n) ==
    IF n = 0 THEN {<< >>}
    ELSE LET shorter == SeqsUpTo(S, n - 1)
         IN  shorter \cup {Append(s, x) : s \in {t \in shorter : Len(t) = n - 1}, x \in S}

\* What scrape_all_images can return for some page.
UrlLists == SeqsUpTo(UrlKinds, MaxCand)

Min(a, b) == IF a <= b THEN a ELSE b
Max(a, b) == IF a >= b THEN a ELSE b

\* s[:n + 1] for s[:n]: one element too many.
PySlice_inclusive(s, n) ==
    IF n >= 0 THEN SubSeq(s, 1, Min(n + 1, Len(s)))
    ELSE SubSeq(s, 1, Max(0, Len(s) + n))

\* Python's s[:n]: the first n elements for n >= 0, all but the last -n
\* elements for n < 0.
PySlice(s, n) ==
    IF n >= 0 THEN SubSeq(s, 1, Min(n, Len(s)))
    ELSE SubSeq(s, 1, Max(0, Len(s) + n))

VARIABLES
    job_statuses,   \* the job table: job id -> record
    pc,             \* per job id: position of its background pipeline
    task_args,      \* per job id: arguments bound by add_task
    driver,         \* per job id: "none", "open" or "closed" browser session
    image_urls,     \* per job id: the truncated candidate list
    index,          \* per job id: number of loop iterations finished
    attempt,        \* per job id: GET attempts made for the current candidate
    written,        \* per job id: candidate ordinals whose file was written
    created,        \* ids returned by start_scrape
    cancelled_ok,   \* ids on which cancel_job has succeeded
    decode_failed,  \* per job id: ordinal whose payload failed to decode, else 0
    last,           \* the last operation: [op, job, code]
    files,          \* the files on disk: the paths save_image has written
    extracted,      \* per job id: number of URLs scrape_all_images returned
    skipped,        \* per job id: ordinals given up after retry_count attempts
    net_failed,     \* per job id: ordinal whose GET raised, else 0
    fn              \* the run of one function on its own (save_image,
                    \* scroll_down, scrape_all_images), else NoCall

vars == <<job_statuses, pc, task_args, driver, image_urls, index, attempt,
          written, created, cancelled_ok, decode_failed, last, files,
          extracted, skipped, net_failed, fn>>

taskvars == <<pc, task_args, driver, image_urls, index, attempt, written,
              decode_failed, files, extracted, skipped, net_failed, fn>>

progvars == <<job_statuses, pc, task_args, driver, image_urls, index, attempt,
              written, created, cancelled_ok, decode_failed, last, files,
              extracted, skipped, net_failed>>

NoCall == [op |-> "none"]

NoArgs == [search_term |-> "", num_images |-> 0, folder_path |-> ""]

\* The program after start-up: job_statuses = {} and nothing scheduled.
NoJobs ==
    /\ job_statuses = << >>
    /\ pc = [j \in JobIds |-> "idle"]
    /\ task_args = [j \in JobIds |-> NoArgs]
    /\ driver = [j \in JobIds |-> "none"]
    /\ image_urls = [j \in JobIds |-> << >>]
    /\ index = [j \in JobIds |-> 0]
    /\ attempt = [j \in JobIds |-> 0]
    /\ written = [j \in JobIds |-> {}]
    /\ created = {}
    /\ cancelled_ok = {}
    /\ decode_failed = [j \in JobIds |-> 0]
    /\ last = [op |-> "none", job |-> 0, code |-> 0]
    /\ files = {}
    /\ extracted = [j \in JobIds |-> 0]
    /\ skipped = [j \in JobIds |-> {}]
    /\ net_failed = [j \in JobIds |-> 0]

Init ==
    /\ NoJobs
    /\ fn = NoCall

Known(j) == j \in DOMAIN job_statuses

SetField(j, f, v) == [job_statuses EXCEPT ![j] = [@ EXCEPT ![f] = v]]

\* ---- request handlers ----

\* start_scrape with the record inserted before os.makedirs: a failing
\* makedirs leaves the record behind.
start_scrape_insert_first(j, term, n, folder, mkdir_ok) ==
    /\ ~Known(j)
    /\ pc[j] = "idle"
    /\ job_statuses' =
          [k \in DOMAIN job_statuses \cup {j} |->
              IF k = j
              THEN [status |-> "pending", images_scraped |-> 0,
                    total_images |-> n, folder_path |-> folder]
              ELSE job_statuses[k]]
    /\ created' = created \cup {j}
    /\ IF mkdir_ok
       THEN /\ pc' = [pc EXCEPT ![j] = "scheduled"]
            /\ task_args' = [task_args EXCEPT ![j] =
                  [search_term |-> term, num_images |-> n, folder_path |-> folder]]
            /\ last' = [op |-> "scrape", job |-> j, code |-> 200]
       ELSE /\ last' = [op |-> "scrape", job |-> 0, code |-> 500]
            /\ UNCHANGED <<pc, task_args>>
    /\ UNCHANGED <<driver, image_urls, index, attempt, written, cancelled_ok,
                   decode_failed, files, extracted, skipped, net_failed, fn>>

\* POST /scrape.  uuid4 gives an id not in the table; makedirs may raise,
\* which becomes a 500 before the record is inserted.
start_scrape(j, term, n, folder, mkdir_ok) ==
    /\ ~Known(j)
    /\ pc[j] = "idle"
    /\ IF mkdir_ok
       THEN /\ job_statuses' =
                  [k \in DOMAIN job_statuses \cup {j} |->
                      IF k = j
                      THEN [status |-> "pending", images_scraped |-> 0,
                            total_images |-> n, folder_path |-> folder]
                      ELSE job_statuses[k]]
            /\ pc' = [pc EXCEPT ![j] = "scheduled"]
            /\ task_args' = [task_args EXCEPT ![j] =
                  [search_term |-> term, num_images |-> n, folder_path |-> folder]]
            /\ created' = created \cup {j}
            /\ last' = [op |-> "scrape", job |-> j, code |-> 200]
       ELSE /\ last' = [op |-> "scrape", job |-> 0, code |-> 500]
            /\ UNCHANGED <<job_statuses, pc, task_args, created>>
    /\ UNCHANGED <<driver, image_urls, index, attempt, written, cancelled_ok,
                   decode_failed, files, extracted, skipped, net_failed, fn>>

\* get_job_status without the membership test: the lookup of an unknown id
\* raises and the request ends as a server error.
get_job_status_unchecked(j) ==
    /\ last' = [op |-> "status", job |-> j,
                code |-> IF Known(j) THEN 200 ELSE 500]
    /\ UNCHANGED <<job_statuses, taskvars, created, cancelled_ok>>

\* GET /status/{job_id}
get_job_status(j) ==
    /\ last' = [op |-> "status", job |-> j,
                code |-> IF Known(j) THEN 200 ELSE 404]
    /\ UNCHANGED <<job_statuses, taskvars, created, cancelled_ok>>

\* cancel_job with the status comparison inverted (!= for ==).
cancel_job_inverted(j) ==
    /\ IF ~Known(j)
       THEN /\ last' = [op |-> "cancel", job |-> j, code |-> 404]
            /\ UNCHANGED <<job_statuses, cancelled_ok>>
       ELSE IF job_statuses[j].status # "pending"
            THEN /\ job_statuses' = SetField(j, "status", "cancelled")
                 /\ cancelled_ok' = cancelled_ok \cup {j}
                 /\ last' = [op |-> "cancel", job |-> j, code |-> 200]
            ELSE /\ last' = [op |-> "cancel", job |-> j, code |-> 400]
                 /\ UNCHANGED <<job_statuses, cancelled_ok>>
    /\ UNCHANGED <<taskvars, created>>

\* cancel_job without the status test: every known job is cancelled.
cancel_job_unguarded(j) ==
    /\ IF ~Known(j)
       THEN /\ last' = [op |-> "cancel", job |-> j, code |-> 404]
            /\ UNCHANGED <<job_statuses, cancelled_ok>>
       ELSE /\ job_statuses' = SetField(j, "status", "cancelled")
            /\ cancelled_ok' = cancelled_ok \cup {j}
            /\ last' = [op |-> "cancel", job |-> j, code |-> 200]
    /\ UNCHANGED <<taskvars, created>>

\* A cancel that also resets the job's progress.
cancel_job_reset_progress(j) ==
    /\ IF ~Known(j)
       THEN /\ last' = [op |-> "cancel", job |-> j, code |-> 404]
            /\ UNCHANGED <<job_statuses, cancelled_ok>>
       ELSE IF job_statuses[j].status = "pending"
            THEN /\ job_statuses' =
                      [job_statuses EXCEPT ![j].status = "cancelled",
                                           ![j].images_scraped = 0]
                 /\ cancelled_ok' = cancelled_ok \cup {j}
                 /\ last' = [op |-> "cancel", job |-> j, code |-> 200]
            ELSE /\ last' = [op |-> "cancel", job |-> j, code |-> 400]
                 /\ UNCHANGED <<job_statuses, cancelled_ok>>
    /\ UNCHANGED <<taskvars, created>>

\* A cancel that deletes the job's record.
cancel_job_deleting(j) ==
    /\ IF ~Known(j)
       THEN /\ last' = [op |-> "cancel", job |-> j, code |-> 404]
            /\ UNCHANGED <<job_statuses, cancelled_ok>>
       ELSE IF job_statuses[j].status = "pending"
            THEN /\ job_statuses' =
                      [k \in DOMAIN job_statuses \ {j} |-> job_statuses[k]]
                 /\ cancelled_ok' = cancelled_ok \cup {j}
                 /\ last' = [op |-> "cancel", job |-> j, code |-> 200]
            ELSE /\ last' = [op |-> "cancel", job |-> j, code |-> 400]
                 /\ UNCHANGED <<job_statuses, cancelled_ok>>
    /\ UNCHANGED <<taskvars, created>>

\* DELETE /cancel/{job_id}
cancel_job(j) ==
    /\ IF ~Known(j)
       THEN /\ last' = [op |-> "cancel", job |-> j, code |-> 404]
            /\ UNCHANGED <<job_statuses, cancelled_ok>>
       ELSE IF job_statuses[j].status = "pending"
            THEN /\ job_statuses' = SetField(j, "status", "cancelled")
                 /\ cancelled_ok' = cancelled_ok \cup {j}
                 /\ last' = [op |-> "cancel", job |-> j, code |-> 200]
            ELSE /\ last' = [op |-> "cancel", job |-> j, code |-> 400]
                 /\ UNCHANGED <<job_statuses, cancelled_ok>>
    /\ UNCHANGED <<taskvars, created>>

\* ---- background pipeline: scrape_images_task ----

TaskStep(j) ==
    /\ last' = [op |-> "task", job |-> 0, code |-> 0]
    /\ UNCHANGED fn

\* The except clause of scrape_images_task: the status becomes "failed" and
\* the task ends; driver.quit() is not on this path.
task_failed_unrecorded(j) ==
    /\ pc' = [pc EXCEPT ![j] = "done"]
    /\ UNCHANGED job_statuses

\* except Exception: job_statuses[job_id]["status"] = "failed"
task_failed(j) ==
    /\ job_statuses' = SetField(j, "status", "failed")
    /\ pc' = [pc EXCEPT ![j] = "done"]

\* driver = create_driver()
step_create_driver(j, ok) ==
    /\ pc[j] = "scheduled"
    /\ TaskStep(j)
    /\ IF ok
       THEN /\ driver' = [driver EXCEPT ![j] = "open"]
            /\ pc' = [pc EXCEPT ![j] = "get"]
            /\ UNCHANGED job_statuses
       ELSE /\ task_failed(j)
            /\ UNCHANGED driver
    /\ UNCHANGED <<task_args, image_urls, index, attempt, written, created,
                   cancelled_ok, decode_failed, files, extracted, skipped,
                   net_failed>>

\* driver.get(search url); time.sleep(5)
step_driver_get(j, ok) ==
    /\ pc[j] = "get"
    /\ TaskStep(j)
    /\ IF ok
       THEN /\ pc' = [pc EXCEPT ![j] = "scroll"]
            /\ UNCHANGED job_statuses
       ELSE task_failed(j)
    /\ UNCHANGED <<task_args, driver, image_urls, index, attempt, written,
                   created, cancelled_ok, decode_failed, files, extracted,
                   skipped, net_failed>>

\* scroll_down(driver)
step_scroll_down(j, ok) ==
    /\ pc[j] = "scroll"
    /\ TaskStep(j)
    /\ IF ok
       THEN /\ pc' = [pc EXCEPT ![j] = "scrape"]
            /\ UNCHANGED job_statuses
       ELSE task_failed(j)
    /\ UNCHANGED <<task_args, driver, image_urls, index, attempt, written,
                   created, cancelled_ok, decode_failed, files, extracted,
                   skipped, net_failed>>

\* image_urls = scrape_all_images(driver); image_urls = image_urls[:num_images]
step_scrape_all_images(j, ok, urls) ==
    /\ pc[j] = "scrape"
    /\ TaskStep(j)
    /\ IF ok
       THEN /\ image_urls' = [image_urls EXCEPT ![j] =
                                 PySlice(urls, task_args[j].num_images)]
            /\ extracted' = [extracted EXCEPT ![j] = Len(urls)]
            /\ pc' = [pc EXCEPT ![j] = "loop"]
            /\ UNCHANGED job_statuses
       ELSE /\ task_failed(j)
            /\ UNCHANGED <<image_urls, extracted>>
    /\ UNCHANGED <<task_args, driver, index, attempt, written, created,
                   cancelled_ok, decode_failed, files, skipped, net_failed>>

\* The end of one loop iteration: save_image returned (or was not called),
\* images_scraped is set to the ordinal when the job id is in the table.
iteration_done(j) ==
    /\ job_statuses' = IF Known(j)
                       THEN SetField(j, "images_scraped", index[j] + 1)
                       ELSE job_statuses
    /\ index' = [index EXCEPT ![j] = index[j] + 1]
    /\ attempt' = [attempt EXCEPT ![j] = 0]
    /\ UNCHANGED pc

\* save_image's exception swallowed: the loop goes on as after a return.
iteration_raised_swallowed(j) ==
    iteration_done(j)

\* save_image raised: the exception reaches the except clause of the task.
iteration_raised(j) ==
    /\ task_failed(j)
    /\ UNCHANGED <<index, attempt>>

\* file_name = f'{search_term}_{index}': the term and the ordinal; the
\* ordinal has no underscore, so the pair determines the string.
FileName(term, ordinal) == <<term, ordinal>>

\* file_path = os.path.join(folder_path, f"{file_name}.jpg")
FilePath(folder, name) == <<folder, name, ".jpg">>

\* with open(file_path, 'wb') as f: f.write(...) returned, for the
\* candidate the loop of job j is at.
file_written(j) ==
    /\ written' = [written EXCEPT ![j] = @ \cup {index[j] + 1}]
    /\ files' = files \cup
          {FilePath(task_args[j].folder_path,
                    FileName(task_args[j].search_term, index[j] + 1))}

InLoop(j) == pc[j] = "loop" /\ index[j] < Len(image_urls[j])
Candidate(j) == image_urls[j][index[j] + 1]

\* One iteration on a data:image/ URL: split, b64decode, open and write.
\* A decode failure raises before the file is opened; a failing open or
\* write raises without a complete file.
save_image_inline(j, write_ok) ==
    /\ InLoop(j)
    /\ Candidate(j) \in {"data_ok", "data_bad"}
    /\ TaskStep(j)
    /\ IF ~Known(j)
       THEN /\ index' = [index EXCEPT ![j] = index[j] + 1]
            /\ UNCHANGED <<job_statuses, pc, attempt, written, files,
                           decode_failed>>
       ELSE IF Candidate(j) = "data_bad"
            THEN /\ iteration_raised(j)
                 /\ decode_failed' = [decode_failed EXCEPT ![j] = index[j] + 1]
                 /\ UNCHANGED <<written, files>>
            ELSE /\ IF write_ok
                    THEN /\ file_written(j)
                         /\ iteration_done(j)
                    ELSE /\ UNCHANGED <<written, files>>
                         /\ iteration_raised(j)
                 /\ UNCHANGED decode_failed
    /\ UNCHANGED <<task_args, driver, image_urls, created, cancelled_ok,
                   extracted, skipped, net_failed>>

\* One pass of the retry loop on a remote URL: requests.get returns 200,
\* returns another status, or raises.
save_image_remote(j, outcome, write_ok) ==
    /\ InLoop(j)
    /\ Candidate(j) = "remote"
    /\ attempt[j] < retry_count
    /\ TaskStep(j)
    /\ IF ~Known(j)
       THEN /\ index' = [index EXCEPT ![j] = index[j] + 1]
            /\ UNCHANGED <<job_statuses, pc, attempt, written, files, skipped,
                           net_failed>>
       ELSE CASE outcome = "ok" ->
                   /\ IF write_ok
                      THEN /\ file_written(j)
                           /\ iteration_done(j)
                      ELSE /\ UNCHANGED <<written, files>>
                           /\ iteration_raised(j)
                   /\ UNCHANGED <<skipped, net_failed>>
              [] outcome = "status" ->
                   /\ UNCHANGED <<written, files, net_failed>>
                   /\ IF attempt[j] + 1 = retry_count
                      THEN /\ iteration_done(j)
                           /\ skipped' = [skipped EXCEPT ![j] = @ \cup {index[j] + 1}]
                      ELSE /\ attempt' = [attempt EXCEPT ![j] = attempt[j] + 1]
                           /\ UNCHANGED <<job_statuses, pc, index, skipped>>
              [] outcome = "raise" ->
                   /\ UNCHANGED <<written, files, skipped>>
                   /\ net_failed' = [net_failed EXCEPT ![j] = index[j] + 1]
                   /\ iteration_raised(j)
    /\ UNCHANGED <<task_args, driver, image_urls, created, cancelled_ok,
                   decode_failed, extracted>>

\* job_statuses[job_id]["status"] = "completed" after the loop
task_completed(j) ==
    /\ pc[j] = "loop"
    /\ index[j] = Len(image_urls[j])
    /\ TaskStep(j)
    /\ job_statuses' = SetField(j, "status", "completed")
    /\ pc' = [pc EXCEPT ![j] = "quit"]
    /\ UNCHANGED <<task_args, driver, image_urls, index, attempt, written,
                   created, cancelled_ok, decode_failed, files, extracted,
                   skipped, net_failed>>

\* driver.quit(), inside the try block: if it raises, the except clause runs.
step_driver_quit(j, ok) ==
    /\ pc[j] = "quit"
    /\ TaskStep(j)
    /\ IF ok
       THEN /\ driver' = [driver EXCEPT ![j] = "closed"]
            /\ pc' = [pc EXCEPT ![j] = "done"]
            /\ UNCHANGED job_statuses
       ELSE /\ task_failed(j)
            /\ UNCHANGED driver
    /\ UNCHANGED <<task_args, image_urls, index, attempt, written, created,
                   cancelled_ok, decode_failed, files, extracted, skipped,
                   net_failed>>

scrape_images_task(j) ==
    \/ \E ok \in BOOLEAN : step_create_driver(j, ok)
    \/ \E ok \in BOOLEAN : step_driver_get(j, ok)
    \/ \E ok \in BOOLEAN : step_scroll_down(j, ok)
    \/ \E ok \in BOOLEAN, urls \in UrlLists : step_scrape_all_images(j, ok, urls)
    \/ \E write_ok \in BOOLEAN : save_image_inline(j, write_ok)
    \/ \E outcome \in {"ok", "status", "raise"}, write_ok \in BOOLEAN :
          save_image_remote(j, outcome, write_ok)
    \/ task_completed(j)
    \/ \E ok \in BOOLEAN : step_driver_quit(j, ok)

Requests ==
    \/ \E j \in JobIds, term \in SearchTerms, n \in NumImages,
          folder \in FolderPaths, mkdir_ok \in BOOLEAN :
          start_scrape(j, term, n, folder, mkdir_ok)
    \/ \E j \in JobIds : get_job_status(j)
    \/ \E j \in JobIds : cancel_job(j)

Next ==
    \/ Requests
    \/ \E j \in JobIds : scrape_images_task(j)

Spec == Init /\ [][Next]_vars

\* ---- the schedule of the asyncio event loop ----

\* The pipeline of job j is between its first call and its end.
Running(j) == pc[j] \notin {"idle", "scheduled", "done"}

\* scrape_images_task with awaits that suspend (asyncio.sleep, an async
\* HTTP client): the loop runs handlers and other tasks between its steps.
LoopFree_suspending(j) == TRUE

\* Whether the event loop can run coroutine j (0: a request handler).
\* scrape_images_task is awaited on the loop that serves the requests
\* (uvicorn.run, one process) and it never suspends: create_driver,
\* driver.get, time.sleep and requests.get block, and `await save_image`
\* runs a coroutine that has no await.  So a started pipeline runs to its
\* end before any handler or any other pipeline runs.
LoopFree(j) == \A k \in JobIds \ {j} : ~Running(k)

NextLoop ==
    \/ LoopFree(0) /\ Requests
    \/ \E j \in JobIds : LoopFree(j) /\ scrape_images_task(j)

SpecLoop == Init /\ [][NextLoop]_vars

\* Every browser and network call of a started pipeline returns or raises, so
\* a pipeline the event loop can run eventually takes its next step.
FairSpecLoop ==
    SpecLoop /\ \A j \in JobIds : WF_vars(LoopFree(j) /\ scrape_images_task(j))

\* ---- save_image on its own ----

\* What one requests.get can do: return status 200, return another status,
\* or raise (timeout, connection error).
Responses == {"ok", "status", "raise"}

\* What the server would answer to the 1st, 2nd, ... GET of one URL; one
\* answer more than retry_count, so that an attempt too many has an answer.
Scripts == [1 .. retry_count + 1 -> Responses]

\* A call save_image(image_url, folder_path, file_name) about to run.
SaveCalls ==
    [op : {"save_image"}, url : UrlKinds, script : Scripts,
     write_ok : BOOLEAN, attempt : {0}, gets : {0}, writes : {0},
     body : {"none"}, state : {"running"}]

InitSave ==
    /\ NoJobs
    /\ fn \in SaveCalls

\* The retry loop without the break: the attempts go on after a 200.
save_image_get_no_break ==
    /\ fn.op = "save_image" /\ fn.state = "running" /\ fn.url = "remote"
    /\ fn.attempt < retry_count
    /\ LET resp == fn.script[fn.gets + 1] IN
       fn' = CASE resp = "ok" ->
                    IF fn.write_ok
                    THEN [fn EXCEPT !.gets = @ + 1, !.writes = @ + 1,
                                    !.body = resp, !.attempt = @ + 1,
                                    !.state = IF fn.attempt + 1 = retry_count
                                              THEN "returned" ELSE "running"]
                    ELSE [fn EXCEPT !.gets = @ + 1, !.state = "raised"]
               [] resp = "status" ->
                    [fn EXCEPT !.gets = @ + 1, !.attempt = @ + 1,
                               !.state = IF fn.attempt + 1 = retry_count
                                         THEN "returned" ELSE "running"]
               [] resp = "raise" ->
                    [fn EXCEPT !.gets = @ + 1, !.state = "raised"]
    /\ UNCHANGED progvars

\* for attempt in range(retry_count): one requests.get; on 200 the body is
\* written and the loop is left, on another status the loop goes on, and an
\* exception (of the GET or of the write) leaves save_image.
save_image_get ==
    /\ fn.op = "save_image" /\ fn.state = "running" /\ fn.url = "remote"
    /\ fn.attempt < retry_count
    /\ LET resp == fn.script[fn.gets + 1] IN
       fn' = CASE resp = "ok" ->
                    IF fn.write_ok
                    THEN [fn EXCEPT !.gets = @ + 1, !.writes = @ + 1,
                                    !.body = resp, !.state = "returned"]
                    ELSE [fn EXCEPT !.gets = @ + 1, !.state = "raised"]
               [] resp = "status" ->
                    [fn EXCEPT !.gets = @ + 1, !.attempt = @ + 1,
                               !.state = IF fn.attempt + 1 = retry_count
                                         THEN "returned" ELSE "running"]
               [] resp = "raise" ->
                    [fn EXCEPT !.gets = @ + 1, !.state = "raised"]
    /\ UNCHANGED progvars

\* The data:image/ branch: split, b64decode, open and write; no GET.
save_image_decode ==
    /\ fn.op = "save_image" /\ fn.state = "running"
    /\ fn.url \in {"data_ok", "data_bad"}
    /\ fn' = IF fn.url = "data_ok" /\ fn.write_ok
             THEN [fn EXCEPT !.writes = @ + 1, !.body = "inline",
                             !.state = "returned"]
             ELSE [fn EXCEPT !.state = "raised"]
    /\ UNCHANGED progvars

NextSave ==
    \/ save_image_get
    \/ save_image_decode

SpecSave == InitSave /\ [][NextSave]_vars

\* ---- scrape_all_images on its own ----

\* A URL is the sequence of its parts; GifMarker is the text the extractor
\* looks for.
GifMarker == "data:image/gif"

HttpUrl == <<"http://host/a.jpg">>
PngUrl == <<"data:image/png", ";base64,AAAA">>
GifUrl == <<GifMarker, ";base64,R0lG">>
\* A remote URL that carries the marker in its query string.
HttpGifUrl == <<"http://host/a?u=", GifMarker>>

\* What get_attribute can return, as a sequence of text parts: None, an
\* empty string, or text.
None == <<"<None>">>
EmptyText == << >>

SrcValues == {None, EmptyText, HttpUrl, GifUrl, HttpGifUrl}
DataSrcValues == {None, HttpUrl, PngUrl}
DimValues == {None, <<"99">>, <<"100">>, <<"px">>}

ImgElements ==
    [src : SrcValues, data_src : DataSrcValues, width : DimValues,
     height : DimValues]

\* Python truthiness of an attribute value: None and "" are false.
Truthy(v) == v \notin {None, EmptyText}

\* a or b
PyOr(a, b) == IF Truthy(a) THEN a ELSE b

\* marker in url
Contains(url, marker) == \E i \in 1 .. Len(url) : url[i] = marker

\* int(text): the number, or a ValueError for text that is no integer.
PyInt(text) ==
    CASE text = <<"99">> -> [ok |-> TRUE, value |-> 99]
      [] text = <<"100">> -> [ok |-> TRUE, value |-> 100]
      [] OTHER -> [ok |-> FALSE, value |-> 0]

\* int(img.get_attribute(dim) or 0)
DimOf(v) == IF Truthy(v) THEN PyInt(v) ELSE [ok |-> TRUE, value |-> 0]

\* The body of the loop for one element: the list with the element's URL
\* appended or not; ok is FALSE when int() raises.
scrape_one(image_urls_so_far, img) ==
    LET image_url == PyOr(img.src, img.data_src) IN
    IF Truthy(image_url) /\ ~Contains(image_url, GifMarker)
    THEN LET width == DimOf(img.width) IN
         IF ~width.ok THEN [ok |-> FALSE, urls |-> << >>]
         ELSE LET height == DimOf(img.height) IN
              IF ~height.ok THEN [ok |-> FALSE, urls |-> << >>]
              ELSE IF width.value >= 100 /\ height.value >= 100
                   THEN [ok |-> TRUE,
                         urls |-> Append(image_urls_so_far, image_url)]
                   ELSE [ok |-> TRUE, urls |-> image_urls_so_far]
    ELSE [ok |-> TRUE, urls |-> image_urls_so_far]

\* scrape_all_images(driver), given the img elements find_elements returns:
\* the list of URLs; ok is FALSE when the function raises.
RECURSIVE scrape_from(_, _, _)
scrape_from(images, i, acc) ==
    IF i > Len(images) THEN [ok |-> TRUE, urls |-> acc]
    ELSE LET next == scrape_one(acc, images[i]) IN
         IF ~next.ok THEN next ELSE scrape_from(images, i + 1, next.urls)

scrape_all_images(images) == scrape_from(images, 1, << >>)

ExtractCalls ==
    [op : {"scrape_all_images"}, images : SeqsUpTo(ImgElements, MaxElems),
     state : {"running"}, result : {<< >>}]

InitExtract ==
    /\ NoJobs
    /\ fn \in ExtractCalls

scrape_all_images_call ==
    /\ fn.op = "scrape_all_images" /\ fn.state = "running"
    /\ LET r == scrape_all_images(fn.images) IN
       fn' = IF r.ok
             THEN [fn EXCEPT !.state = "returned", !.result = r.urls]
             ELSE [fn EXCEPT !.state = "raised"]
    /\ UNCHANGED progvars

NextExtract == scrape_all_images_call

SpecExtract == InitExtract /\ [][NextExtract]_vars

\* ---- scroll_down on its own ----

\* The page: its height at the first measurement, and by how much each
\* scroll changes it (a lazily loading page grows, a collapsing one shrinks).
FirstHeights == {10}
Deltas == (0 - MaxDelta) .. MaxDelta

\* fail_at = k makes the k-th execute_script call raise; 0 makes none raise.
ScrollCalls ==
    {[op |-> "scroll_down", deltas |-> d, fail_at |-> f, page |-> h,
      last_height |-> 0, i |-> 0, calls |-> 0, scrolls |-> 0,
      heights |-> << >>, state |-> "start"] :
        d \in [1 .. scroll_limit + 1 -> Deltas],
        f \in 0 .. 2 * scroll_limit + 1,
        h \in FirstHeights}

InitScroll ==
    /\ NoJobs
    /\ fn \in ScrollCalls

\* for i in range(scroll_limit): the loop goes on while i is in range.
LoopState(i) == IF i < scroll_limit THEN "loop" ELSE "returned"

\* last_height = driver.execute_script("return document.body.scrollHeight")
scroll_down_first ==
    /\ fn.op = "scroll_down" /\ fn.state = "start"
    /\ fn' = IF fn.fail_at = 1
             THEN [fn EXCEPT !.calls = 1, !.state = "raised"]
             ELSE [fn EXCEPT !.calls = 1,
                             !.heights = <<fn.page>>,
                             !.last_height = fn.page,
                             !.state = LoopState(0)]
    /\ UNCHANGED progvars

\* The same iteration without the break.
scroll_down_iteration_no_break ==
    /\ fn.op = "scroll_down" /\ fn.state = "loop"
    /\ LET grown == fn.page + fn.deltas[fn.i + 1] IN
       fn' = IF fn.fail_at = fn.calls + 1
             THEN [fn EXCEPT !.calls = @ + 1, !.state = "raised"]
             ELSE IF fn.fail_at = fn.calls + 2
             THEN [fn EXCEPT !.calls = @ + 2, !.scrolls = @ + 1,
                             !.page = grown, !.state = "raised"]
             ELSE [fn EXCEPT !.calls = @ + 2, !.scrolls = @ + 1,
                             !.page = grown,
                             !.heights = Append(@, grown),
                             !.last_height = grown,
                             !.i = @ + 1,
                             !.state = LoopState(fn.i + 1)]
    /\ UNCHANGED progvars

\* One iteration: scroll to the bottom, sleep, measure, compare.
scroll_down_iteration ==
    /\ fn.op = "scroll_down" /\ fn.state = "loop"
    /\ LET grown == fn.page + fn.deltas[fn.i + 1] IN
       fn' = IF fn.fail_at = fn.calls + 1
             THEN [fn EXCEPT !.calls = @ + 1, !.state = "raised"]
             ELSE IF fn.fail_at = fn.calls + 2
             THEN [fn EXCEPT !.calls = @ + 2, !.scrolls = @ + 1,
                             !.page = grown, !.state = "raised"]
             ELSE IF grown = fn.last_height
             THEN [fn EXCEPT !.calls = @ + 2, !.scrolls = @ + 1,
                             !.page = grown,
                             !.heights = Append(@, grown),
                             !.state = "returned"]
             ELSE [fn EXCEPT !.calls = @ + 2, !.scrolls = @ + 1,
                             !.page = grown,
                             !.heights = Append(@, grown),
                             !.last_height = grown,
                             !.i = @ + 1,
                             !.state = LoopState(fn.i + 1)]
    /\ UNCHANGED progvars

NextScroll ==
    \/ scroll_down_first
    \/ scroll_down_iteration

SpecScroll == InitScroll /\ [][NextScroll]_vars

TypeOK ==
    /\ DOMAIN job_statuses \subseteq JobIds
    /\ \A j \in DOMAIN job_statuses :
          job_statuses[j].status \in {"pending", "completed", "failed", "cancelled"}
    /\ created = DOMAIN job_statuses

\* ---- properties ----

Terminal == {"completed", "failed", "cancelled"}

Status(j) == job_statuses[j].status

\* The step just taken was the handler op called with job id j.
Handled(op, j) == last'.op = op /\ last'.job = j

\* C1: in every reachable state every job in the table has
\* images_scraped <= total_images, whatever num_images it was created with.
C1_ScrapedAtMostTotal ==
    \A j \in DOMAIN job_statuses :
        job_statuses[j].images_scraped <= job_statuses[j].total_images

\* C2: once a job's status is completed, failed or cancelled, no step of any
\* operation changes it.
C2_TerminalStatusStable ==
    [][\A j \in DOMAIN job_statuses :
          Status(j) \in Terminal => job_statuses'[j].status = Status(j)]_vars

\* C3: after cancel has succeeded on a job, its pipeline performs no further
\* image fetch and never changes images_scraped again.  Stated for the jobs
\* created with num_images >= 0, so that a violation owes nothing to C1.
C3_NoFetchAfterCancel ==
    [][\A j \in {k \in cancelled_ok : job_statuses[k].total_images >= 0} :
          /\ job_statuses'[j].images_scraped = job_statuses[j].images_scraped
          /\ written'[j] = written[j]
          /\ index'[j] = index[j]
          /\ attempt'[j] = attempt[j]]_vars

\* C4: cancel on a known job whose status is pending succeeds and leaves the
\* status cancelled, with images_scraped, total_images and folder_path of
\* that job as they were.
C4_CancelPending ==
    [][\A j \in JobIds :
          (Handled("cancel", j) /\ Known(j) /\ Status(j) = "pending") =>
             /\ last'.code = 200
             /\ j \in DOMAIN job_statuses'
             /\ job_statuses'[j] = [job_statuses[j] EXCEPT !.status = "cancelled"]]_vars

C4_Witness ==
    \E j \in cancelled_ok :
        /\ last = [op |-> "cancel", job |-> j, code |-> 200]
        /\ Status(j) = "cancelled"

\* C5: cancel on a known job whose status is not pending fails with 400 and
\* leaves the job table as it was; a job on which cancel has succeeded is
\* such a job, so a second cancel fails.
C5_CancelNotPending ==
    [][\A j \in JobIds :
          (Handled("cancel", j) /\ Known(j)
             /\ (Status(j) # "pending" \/ j \in cancelled_ok)) =>
             /\ last'.code = 400
             /\ job_statuses' = job_statuses]_vars

C5_Witness ==
    \E j \in cancelled_ok : last = [op |-> "cancel", job |-> j, code |-> 400]

\* C6: get_job_status and cancel answer 404 exactly for the ids that
\* start_scrape never returned, and then leave the job table unchanged.
C6_NotFound ==
    [][\A j \in JobIds :
          (Handled("status", j) \/ Handled("cancel", j)) =>
             /\ (last'.code = 404) <=> (j \notin created)
             /\ j \notin created => job_statuses' = job_statuses]_vars

C6_Witness ==
    /\ last.op \in {"status", "cancel"}
    /\ last.code = 404
    /\ last.job \notin created
    /\ created # {}

\* C7: a candidate whose GET returns non-success on all attempts is skipped
\* without a file and without an increment, so images_scraped equals the
\* number of candidates for which a file was written.  Stated for the jobs
\* created with num_images >= 0, so that a violation owes nothing to C1.
C7_ScrapedCountsFiles ==
    \A j \in DOMAIN job_statuses :
        job_statuses[j].total_images >= 0 =>
            job_statuses[j].images_scraped = Cardinality(written[j])

\* C8: when the data:image/ candidate at position k fails to decode, the
\* status is failed, images_scraped is the value it had before candidate k,
\* and no candidate after k is fetched or written.
C8_DecodeFailureStops ==
    \A j \in JobIds :
        decode_failed[j] > 0 =>
            /\ Known(j)
            /\ Status(j) = "failed"
            /\ job_statuses[j].images_scraped = decode_failed[j] - 1
            /\ index[j] = decode_failed[j] - 1
            /\ attempt[j] = 0
            /\ \A k \in written[j] : k < decode_failed[j]
            /\ pc[j] = "done"

C8_Witness ==
    \E j \in JobIds :
        /\ decode_failed[j] = 1
        /\ Len(image_urls[j]) > 1
        /\ Status(j) = "failed"
        /\ last.op # "task"

\* C9: a pipeline run that opened the browser session has closed it when
\* the run has ended, with status completed or failed.
C9_SessionClosed ==
    \A j \in JobIds :
        (pc[j] = "done" /\ driver[j] # "none") => driver[j] = "closed"

\* C10: every change of a job's status is one of pending->running,
\* running->completed, running->failed, pending->cancelled.
StatusEdges ==
    {<<"pending", "running">>, <<"running", "completed">>,
     <<"running", "failed">>, <<"pending", "cancelled">>}

C10_StatusEdges ==
    [][\A j \in DOMAIN job_statuses :
          job_statuses'[j].status # Status(j) =>
             <<Status(j), job_statuses'[j].status>> \in StatusEdges]_vars

\* The files job j has written, by the names save_image gives them.
FilesOf(j) ==
    {FilePath(task_args[j].folder_path, FileName(task_args[j].search_term, k)) :
        k \in written[j]}

\* The pipeline of job j has returned: every call in the try block,
\* driver.quit() included, returned without raising.
Returned(j) == pc[j] = "done" /\ driver[j] = "closed"

\* C11: a job created with num_images n >= 0 that is never cancelled, whose
\* extractor yields c candidates and whose every fetch succeeds ends with
\* status completed and images_scraped = min(n, c), and the files written
\* are exactly term_1.jpg .. term_min(n,c).jpg in its folder.
C11_AllFetched ==
    /\ files = UNION {FilesOf(j) : j \in JobIds}
    /\ \A j \in JobIds :
          (Returned(j) /\ j \notin cancelled_ok /\ skipped[j] = {}
             /\ task_args[j].num_images >= 0) =>
             LET m == Min(task_args[j].num_images, extracted[j]) IN
             /\ Status(j) = "completed"
             /\ job_statuses[j].images_scraped = m
             /\ written[j] = 1 .. m
             /\ FilesOf(j) =
                  {<<job_statuses[j].folder_path,
                     <<task_args[j].search_term, k>>, ".jpg">> : k \in 1 .. m}

C11_Witness ==
    \E j \in JobIds :
        /\ Returned(j) /\ j \notin cancelled_ok /\ skipped[j] = {}
        /\ task_args[j].num_images = 1
        /\ extracted[j] = 2
        /\ Status(j) = "completed"
        /\ job_statuses[j].images_scraped = 1
        /\ Cardinality(files) = 1

\* C12: a successful create inserts exactly one record, pending with
\* images_scraped 0 and total_images the requested num_images, and schedules
\* exactly one pipeline, bound to the new id; a create whose directory
\* cannot be made answers an error, adds no record and schedules nothing.
C12_Create ==
    [][last'.op = "scrape" =>
         IF last'.code = 200
         THEN LET j == last'.job IN
              /\ j \notin DOMAIN job_statuses
              /\ DOMAIN job_statuses' = DOMAIN job_statuses \cup {j}
              /\ \A k \in DOMAIN job_statuses : job_statuses'[k] = job_statuses[k]
              /\ job_statuses'[j] =
                   [status |-> "pending", images_scraped |-> 0,
                    total_images |-> task_args'[j].num_images,
                    folder_path |-> task_args'[j].folder_path]
              /\ pc[j] = "idle" /\ pc'[j] = "scheduled"
              /\ \A k \in JobIds \ {j} : pc'[k] = pc[k] /\ task_args'[k] = task_args[k]
         ELSE /\ last'.code = 500
              /\ job_statuses' = job_statuses
              /\ pc' = pc
              /\ created' = created]_vars

C12_Witness ==
    /\ last = [op |-> "scrape", job |-> 0, code |-> 500]
    /\ Cardinality(DOMAIN job_statuses) = 1
    /\ \E j \in created : pc[j] = "scheduled" /\ Status(j) = "pending"

\* C13: for one remote URL save_image issues at most 3 GETs, a further GET
\* only after a non-success status and none after a success, and writes the
\* file at most once, and only the body of a success response.
C13_BoundedRetry ==
    (fn.op = "save_image" /\ fn.url = "remote") =>
        /\ fn.gets <= 3
        /\ \A i \in 1 .. fn.gets - 1 : fn.script[i] = "status"
        /\ fn.writes <= 1
        /\ fn.writes = 1 =>
              /\ fn.gets >= 1
              /\ fn.script[fn.gets] = "ok"
              /\ fn.body = "ok"
        /\ fn.state = "running" => fn.writes = 0

C13_Witness ==
    /\ fn.op = "save_image" /\ fn.url = "remote"
    /\ fn.state = "returned"
    /\ fn.gets = 3
    /\ fn.writes = 1

\* C14: a GET of one remote image that times out or cannot connect is
\* retried and, if it persists, the image is skipped: it never sets the
\* job's status to failed and never stops the loop.  Stated for the jobs
\* created with num_images >= 0, so that a violation owes nothing to C1.
C14_NetworkFailureTolerated ==
    \A j \in JobIds :
        (net_failed[j] > 0 /\ task_args[j].num_images >= 0) =>
            /\ Status(j) # "failed"
            /\ pc[j] # "done"

\* C15: once a job's pipeline has begun executing, every cancel request for
\* that job is rejected with 400: cancel succeeds only while the pipeline
\* has not started.
C15_NoCancelOnceStarted ==
    [][\A j \in JobIds :
          Handled("cancel", j) =>
             /\ pc[j] \notin {"idle", "scheduled"} => last'.code = 400
             /\ last'.code = 200 => pc[j] = "scheduled"]_vars

C15_Witness ==
    \E j \in JobIds \ cancelled_ok :
        /\ last = [op |-> "cancel", job |-> j, code |-> 400]
        /\ pc[j] = "done"
        /\ index[j] > 0

\* The URL an element resolves to: src, else data-src.
ResolvedUrl(img) == IF Truthy(img.src) THEN img.src ELSE img.data_src

\* The URL is an inline GIF: a data: URL of type image/gif.
InlineGif(url) == url[1] = GifMarker

\* A dimension attribute as a number, an unset one as 0.
Dimension(v) ==
    CASE v = <<"99">> -> 99
      [] v = <<"100">> -> 100
      [] OTHER -> 0

\* The elements the extractor is to keep.
Kept(img) ==
    /\ Truthy(ResolvedUrl(img))
    /\ ~InlineGif(ResolvedUrl(img))
    /\ Dimension(img.width) >= 100
    /\ Dimension(img.height) >= 100

RECURSIVE KeptUrls(_)
KeptUrls(images) ==
    IF images = << >> THEN << >>
    ELSE IF Kept(Head(images))
         THEN <<ResolvedUrl(Head(images))>> \o KeptUrls(Tail(images))
         ELSE KeptUrls(Tail(images))

\* C16: scrape_all_images returns exactly the subsequence, in DOM order and
\* with duplicates kept, of the elements whose resolved URL (src, else
\* data-src) is non-empty and no inline GIF placeholder and whose width and
\* height are both >= 100, an unset dimension counting as 0.
C16_ExtractorFilter ==
    (fn.op = "scrape_all_images" /\ fn.state = "returned") =>
        fn.result = KeptUrls(fn.images)

\* C17: scroll_down performs at most scroll_limit scrolls whatever the page
\* heights are, performs no scroll after the first measurement that equals
\* the one before it, and has returned once scroll_limit scrolls were
\* measured, also on a page that grows on every scroll.
C17_ScrollBounded ==
    fn.op = "scroll_down" =>
        /\ fn.scrolls <= scroll_limit
        /\ \A m \in 2 .. Len(fn.heights) :
               fn.heights[m] = fn.heights[m - 1] =>
                   /\ fn.scrolls = m - 1
                   /\ fn.state = "returned"
        /\ Len(fn.heights) = scroll_limit + 1 => fn.state = "returned"

C17_Witness ==
    /\ fn.op = "scroll_down"
    /\ fn.state = "returned"
    /\ fn.scrolls = scroll_limit
    /\ Len(fn.heights) = scroll_limit + 1
    /\ \A m \in 2 .. Len(fn.heights) : fn.heights[m] > fn.heights[m - 1]

\* C18: every scheduled pipeline run eventually ends, given that each browser
\* and network call returns or raises, and once it has ended the job's status
\* is completed or failed: a failure of driver creation, navigation,
\* scrolling, extraction or an image save is recorded as failed, never left
\* as pending.
C18_RunEndsCompletedOrFailed ==
    /\ \A j \in JobIds : (pc[j] = "scheduled") ~> (pc[j] = "done")
    /\ [](\A j \in JobIds :
             pc[j] = "done" => Status(j) \in {"completed", "failed"})

C18_Witness ==
    \E j \in JobIds :
        /\ pc[j] = "done"
        /\ Status(j) = "failed"
        /\ driver[j] = "open"
        /\ index[j] < Len(image_urls[j])

\* C19: over any sequence of operations a job's images_scraped never
\* decreases and its total_images and folder_path never change after
\* creation; only a step of the job's own pipeline changes its
\* images_scraped, and a job's record is changed by no operation on another
\* job (only by its own pipeline or a cancel of that job).
C19_RecordFrame ==
    [][\A j \in DOMAIN job_statuses :
          /\ job_statuses'[j].images_scraped >= job_statuses[j].images_scraped
          /\ job_statuses'[j].total_images = job_statuses[j].total_images
          /\ job_statuses'[j].folder_path = job_statuses[j].folder_path
          /\ job_statuses'[j].images_scraped # job_statuses[j].images_scraped
                => scrape_images_task(j)
          /\ job_statuses'[j] # job_statuses[j]
                => \/ scrape_images_task(j)
                   \/ Handled("cancel", j)]_vars

C19_Witness ==
    \E j \in DOMAIN job_statuses, k \in DOMAIN job_statuses :
        /\ j # k
        /\ job_statuses[j].images_scraped = MaxNum
        /\ InLoop(k)
        /\ job_statuses[k].images_scraped = 1
        /\ last = [op |-> "cancel", job |-> k, code |-> 200]

====
